---------------------------- MODULE Spec2Model ----------------------------
(***************************************************************************)
(* human-readable-checksum (src/src/lib.rs): load_word_list and            *)
(* address_to_checksum.                                                    *)
(*                                                                         *)
(* The 128-bit accumulator key_int is modelled bit by bit, as a function   *)
(* from bit weights 0..127 to {0, 1}: bit k has weight 2^k.  The shifts,   *)
(* the or and the mask of the code are the operators Shl, Shr, BitOr and   *)
(* BitAnd on such functions, so a bit a shift drops is really dropped.     *)
(*                                                                         *)
(* A list of lines or words is held in the state by its description, a    *)
(* record [kind, len]; Words(d) is the list itself, Length(d) its length,  *)
(* and an element of the list is read as Words(d)[k].                      *)
(*                                                                         *)
(* PBKDF2-HMAC-SHA256 is the pbkdf2 crate's, not this repository's: it is  *)
(* a fixed but unknown function from passwords to keys, the variable kdf,  *)
(* chosen in Init and never changed.                                       *)
(***************************************************************************)
EXTENDS Integers, Sequences, FiniteSets, TLC

\* ------------------------------------------------------------ constants

WORD_COUNT == 2048

CHECKSUM_LEN == 5

\* (CHECKSUM_LEN * 11).div_ceil(8)
KEY_BYTECOUNT == (CHECKSUM_LEN * 11 + 7) \div 8

\* the width of the accumulator, 0u128
U128_BITS == 128

\* the width of usize on the 64-bit targets the crate is built for
USIZE_BITS == 64

\* ---------------------------------------------------------------- bounds

\* how many of the byte values of ByteSeq a key byte is drawn from
NumByteVals == 2

\* how many of the byte values of PairByteSeq the one changed byte of a key
\* of the tests is drawn from
NumPairVals == 2

ByteSeq == <<255, 0, 165, 90, 254, 1>>

ByteVals == {ByteSeq[m] : m \in 1..NumByteVals}

PairByteSeq == <<254, 127, 0, 170, 85>>

PairVals == {PairByteSeq[m] : m \in 1..NumPairVals}

\* ------------------------------------------------------- u128 arithmetic

BitIdx == 0..(U128_BITS - 1)

\* 0u128
Zero128 == [k \in BitIdx |-> 0]

\* v as u128, for 0 <= v < 2^31
FromInt(v) == [k \in BitIdx |-> IF k < 31 THEN (v \div (2 ^ k)) % 2 ELSE 0]

\* x << n on u128, 0 <= n < 128: the bits shifted past bit 127 are dropped
Shl(x, n) == [k \in BitIdx |-> IF k >= n THEN x[k - n] ELSE 0]

\* x >> n on u128 (logical)
Shr(x, n) == [k \in BitIdx |-> IF k + n < U128_BITS THEN x[k + n] ELSE 0]

BitOr(x, y) == [k \in BitIdx |-> IF x[k] = 1 \/ y[k] = 1 THEN 1 ELSE 0]

BitAnd(x, y) == [k \in BitIdx |-> IF x[k] = 1 /\ y[k] = 1 THEN 1 ELSE 0]

RECURSIVE BitsValue(_, _)
\* the value of bits 0..n-1 of x
BitsValue(x, n) ==
  IF n = 0 THEN 0
  ELSE (IF x[n - 1] = 1 THEN 2 ^ (n - 1) ELSE 0) + BitsValue(x, n - 1)

\* the highest set bit below USIZE_BITS, or -1
TopBit(x) ==
  LET S == {k \in 0..(USIZE_BITS - 1) : x[k] = 1}
  IN  IF S = {} THEN -1 ELSE CHOOSE k \in S : \A m \in S : m <= k

\* x as usize: the low USIZE_BITS bits of x
AsUsize(x) == BitsValue(x, TopBit(x) + 1)

\* ------------------------------------------------------------ the inputs

\* [0u8; KEY_BYTECOUNT]
ZeroKey == [p \in 1..KEY_BYTECOUNT |-> 0]

\* the keys a call may get from the key stretching
Keys == [1..KEY_BYTECOUNT -> ByteVals]

\* the keys of the tests: every byte 255, but for at most one byte of PairVals
PairKeys ==
  {[p \in 1..KEY_BYTECOUNT |-> 255]} \cup
  { [p \in 1..KEY_BYTECOUNT |-> IF p = q THEN b ELSE 255] :
      q \in 1..KEY_BYTECOUNT, b \in PairVals }

\* the description of a list of len lines of text: all distinct, all the
\* same word, or distinct with one empty line
List(kind, len) == [kind |-> kind, len |-> len]

\* the list d describes
Words(d) ==
  [k \in 1..d.len |->
     CASE d.kind = "distinct" -> ToString(k)
       [] d.kind = "same"     -> "abandon"
       [] d.kind = "blank"    -> IF k = 2 THEN "" ELSE ToString(k)]

\* the length of the list d describes: Len(Words(d))
Length(d) == d.len

\* the word lists a caller may pass to address_to_checksum
Vocabularies ==
  { List("distinct", WORD_COUNT), List("same", WORD_COUNT),
    List("distinct", WORD_COUNT - 1), List("distinct", WORD_COUNT + 1),
    List("distinct", 0) }

\* ------------------------------------------------------------- the state

VARIABLES
  kdf,        \* PBKDF2-HMAC-SHA256(., SALT, ITERATIONS) on the identifiers used
  file,       \* final_wordlist.txt in the working directory
  loaded,     \* what load_word_list returned last
  pc,         \* the position of address_to_checksum
  address,    \* its parameter address
  word_list,  \* its parameter word_list
  key,        \* its local key
  key_int,    \* its local key_int
  n,          \* the bytes folded so far (the iterator of line 49)
  indices,    \* its local indices
  i,          \* the loop variable of line 60
  out,        \* what the call ended with
  first       \* the first completed call, as the tests keep it (checksum1),
              \* with the key and the indices it had

vars ==
  <<kdf, file, loaded, pc, address, word_list, key, key_int, n, indices, i,
    out, first>>

NoResult == [kind |-> "none"]

\* ------------------------------------------------------- load_word_list

\* The file as load_word_list meets it: whether Path::exists finds it, the
\* error File::open ends with ("none": it opens), the error reading a line
\* ends with ("none": every line is read), and its lines as BufRead::lines
\* yields them.
FileOf(kind, len, openErr, readErr) ==
  [exists |-> TRUE, openErr |-> openErr, readErr |-> readErr,
   lines |-> List(kind, len)]

NoFile ==
  [exists |-> FALSE, openErr |-> "none", readErr |-> "none",
   lines |-> List("distinct", 0)]

Contents ==
  { <<"distinct", WORD_COUNT>>, <<"same", WORD_COUNT>>, <<"blank", WORD_COUNT>>,
    <<"distinct", WORD_COUNT - 1>>, <<"distinct", WORD_COUNT + 1>>,
    <<"same", WORD_COUNT + 1>>, <<"blank", WORD_COUNT - 1>>,
    <<"distinct", 1>>, <<"distinct", 0>> }

Files ==
  {NoFile} \cup
  { FileOf(c[1], c[2], o, r) :
      c \in Contents, o \in {"none", "PermissionDenied"},
      r \in {"none", "InvalidData", "Other"} }

Err(kind) == [kind |-> "Err", err |-> kind]

\* a faulty variant: the count of lines 30-35 is not checked
LoadResultNoCount(f) ==
  IF ~f.exists THEN Err("NotFound")
  ELSE IF f.openErr # "none" THEN Err(f.openErr)
  ELSE IF f.readErr # "none" THEN Err(f.readErr)
  ELSE [kind |-> "Ok", words |-> f.lines]

\* load_word_list, lines 18-39, on the file f
LoadResult(f) ==
  IF ~f.exists THEN Err("NotFound")                        \* lines 19-24
  ELSE IF f.openErr # "none" THEN Err(f.openErr)           \* line 26, ?
  ELSE IF f.readErr # "none" THEN Err(f.readErr)           \* line 28, ?
  ELSE IF Length(f.lines) # WORD_COUNT THEN Err("InvalidData") \* lines 30-35
  ELSE [kind |-> "Ok", words |-> f.lines]                  \* line 38

\* ------------------------------------------------- address_to_checksum

\* a faulty variant: the key stretching writes into a copy, key stays zeroed
UnfilledKey(a) == ZeroKey

\* pbkdf2_hmac::<Sha256>(address.as_bytes(), SALT.as_bytes(), ITERATIONS, &mut key)
DerivedKey(a) == kdf[a]

\* a faulty variant: the accumulator is a u32
FoldByteU32(x, byte) ==
  [k \in BitIdx |-> IF k < 32 THEN BitOr(Shl(x, 8), FromInt(byte))[k] ELSE 0]

\* key_int = (key_int << 8) | byte as u128
FoldByte(x, byte) == BitOr(Shl(x, 8), FromInt(byte))

\* a faulty variant: the shift is the remainder by 8, which is 0
DropExcessNone(x) == Shr(x, (8 * KEY_BYTECOUNT) % 8)

\* a faulty variant: a whole 11-bit group is taken for the excess
DropExcessGroup(x) == Shr(x, 11)

\* key_int >>= (8 * KEY_BYTECOUNT) % 11
DropExcess(x) == Shr(x, (8 * KEY_BYTECOUNT) % 11)

\* a faulty variant: the mask is 0xFFF
IndexAtWide(x, j) ==
  AsUsize(BitAnd(Shr(x, (CHECKSUM_LEN - 1 - j) * 11), FromInt(4095)))

\* a faulty variant: the groups are taken from the low end
IndexAtReversed(x, j) == AsUsize(BitAnd(Shr(x, j * 11), FromInt(2047)))

\* ((key_int >> shift) & 0x7FF) as usize, shift = (CHECKSUM_LEN - 1 - i) * 11
IndexAt(x, j) == AsUsize(BitAnd(Shr(x, (CHECKSUM_LEN - 1 - j) * 11), FromInt(2047)))

\* a faulty variant: indices is kept from the call before
StaleIndices == indices

\* Vec::with_capacity(CHECKSUM_LEN)
NewIndices == <<>>

\* line 41, 43: the call starts, key is zeroed
Call(a, wl) ==
  /\ pc = "idle"
  /\ pc' = "pbkdf2"
  /\ address' = a
  /\ word_list' = wl
  /\ key' = ZeroKey
  /\ out' = NoResult
  /\ UNCHANGED <<key_int, n, indices, i>>

\* line 44, 48: the key stretching fills key; key_int starts at 0
Pbkdf2 ==
  /\ pc = "pbkdf2"
  /\ key' = DerivedKey(address)
  /\ key_int' = Zero128
  /\ n' = 0
  /\ pc' = "fold"
  /\ UNCHANGED <<address, word_list, indices, i, out>>
  /\ UNCHANGED <<kdf, file, loaded, first>>

\* lines 49-51: one iteration of the byte-folding loop
Fold ==
  /\ pc = "fold"
  /\ n < KEY_BYTECOUNT
  /\ key_int' = FoldByte(key_int, key[n + 1])
  /\ n' = n + 1
  /\ UNCHANGED <<pc, address, word_list, key, indices, i, out>>
  /\ UNCHANGED <<kdf, file, loaded, first>>

\* lines 54, 59: the loop is over; the excess bits go, indices is created
Shift ==
  /\ pc = "fold"
  /\ n = KEY_BYTECOUNT
  /\ key_int' = DropExcess(key_int)
  /\ indices' = NewIndices
  /\ i' = 0
  /\ pc' = "split"
  /\ UNCHANGED <<address, word_list, key, n, out>>
  /\ UNCHANGED <<kdf, file, loaded, first>>

\* lines 60-64: one iteration of the index loop
Split ==
  /\ pc = "split"
  /\ i < CHECKSUM_LEN
  /\ indices' = Append(indices, IndexAt(key_int, i))
  /\ i' = i + 1
  /\ UNCHANGED <<pc, address, word_list, key, key_int, n, out>>
  /\ UNCHANGED <<kdf, file, loaded, first>>

\* line 68: word_list[i] for each index; an index past the end panics
MapWords ==
  /\ pc = "split"
  /\ i = CHECKSUM_LEN
  /\ \/ /\ \A m \in 1..Len(indices) : indices[m] < Length(word_list)
        /\ out' = [kind |-> "words",
                   words |-> [m \in 1..Len(indices) |->
                                Words(word_list)[indices[m] + 1]]]
     \/ /\ \E m \in 1..Len(indices) : indices[m] >= Length(word_list)
        /\ out' = [kind |-> "panic"]
  /\ pc' = "done"
  /\ UNCHANGED <<address, word_list, key, key_int, n, indices, i>>
  /\ UNCHANGED <<kdf, file, loaded, first>>

\* the caller takes the result
Return ==
  /\ pc = "done"
  /\ pc' = "idle"
  /\ UNCHANGED <<address, word_list, key, key_int, n, indices, i, out>>

\* -------------------------------------------------- the single-call machine

Init ==
  /\ \E k \in Keys : kdf = ("" :> k)
  /\ file = NoFile
  /\ loaded = NoResult
  /\ pc = "idle"
  /\ address = ""
  /\ word_list = List("distinct", 0)
  /\ key = ZeroKey
  /\ key_int = Zero128
  /\ n = 0
  /\ indices = <<>>
  /\ i = 0
  /\ out = NoResult
  /\ first = NoResult

CallAny ==
  /\ pc = "idle"
  /\ \E a \in DOMAIN kdf : \E wl \in Vocabularies : Call(a, wl)
  /\ UNCHANGED <<kdf, file, loaded, first>>

ReturnAny ==
  /\ Return
  /\ UNCHANGED <<kdf, file, loaded, first>>

Next == CallAny \/ Pbkdf2 \/ Fold \/ Shift \/ Split \/ MapWords \/ ReturnAny

Spec == Init /\ [][Next]_vars

\* ------------------------------------------------ the word-list file

InitLoad ==
  /\ kdf = ("" :> ZeroKey)
  /\ file \in Files
  /\ loaded = NoResult
  /\ pc = "idle"
  /\ address = ""
  /\ word_list = List("distinct", 0)
  /\ key = ZeroKey
  /\ key_int = Zero128
  /\ n = 0
  /\ indices = <<>>
  /\ i = 0
  /\ out = NoResult
  /\ first = NoResult

\* load_word_list()
LoadWordList ==
  /\ loaded = NoResult
  /\ loaded' = LoadResult(file)
  /\ UNCHANGED <<kdf, file, pc, address, word_list, key, key_int, n, indices,
                 i, out, first>>

\* the caller drops the result; the file is written, removed or made
\* unreadable before the next load
ChangeFile ==
  /\ loaded # NoResult
  /\ \E f \in Files : f # file /\ file' = f
  /\ loaded' = NoResult
  /\ UNCHANGED <<kdf, pc, address, word_list, key, key_int, n, indices, i,
                 out, first>>

NextLoad == LoadWordList \/ ChangeFile

SpecLoad == InitLoad /\ [][NextLoad]_vars

\* ------------------------------------------------------------ the tests

\* the identifiers of test_deterministic and
\* test_different_addresses_produce_different_checksums
TestAddresses ==
  {"1A1zP1eP5QGefi2DMPTfTL5SLmv7DivfNa", "1A1zP1eP5QGefi2DMPTfTL5SLmv7DixfNa"}

\* the word-list files the tests may find
TestFiles ==
  { NoFile, FileOf("distinct", WORD_COUNT, "none", "none"),
    FileOf("same", WORD_COUNT, "none", "none") }

InitTest ==
  /\ file \in TestFiles
  /\ loaded = NoResult
  /\ pc = "idle"
  /\ address = ""
  /\ word_list = List("distinct", 0)
  /\ key = ZeroKey
  /\ key_int = Zero128
  /\ n = 0
  /\ indices = <<>>
  /\ i = 0
  /\ out = NoResult
  /\ first = NoResult

\* let word_list = load_word_list()?;
TestLoad ==
  /\ loaded = NoResult
  /\ loaded' = LoadResult(file)
  /\ UNCHANGED <<kdf, file, pc, address, word_list, key, key_int, n, indices,
                 i, out, first>>

\* address_to_checksum(address, &word_list)
TestCall ==
  /\ loaded.kind = "Ok"
  /\ \E a \in DOMAIN kdf : Call(a, loaded.words)
  /\ UNCHANGED <<kdf, file, loaded, first>>

\* let checksum1 = ...; the first result is kept
TestReturn ==
  /\ Return
  /\ first' = IF first = NoResult
              THEN [kind |-> "call", address |-> address, key |-> key,
                    indices |-> indices, out |-> out]
              ELSE first
  /\ UNCHANGED <<kdf, file, loaded>>

NextTest ==
  TestLoad \/ TestCall \/ Pbkdf2 \/ Fold \/ Shift \/ Split \/ MapWords \/ TestReturn

\* the tests with the key stretching unknown: any two keys of PairKeys
InitPair == kdf \in [TestAddresses -> PairKeys] /\ InitTest

SpecPair == InitPair /\ [][NextTest]_vars

\* PBKDF2-HMAC-SHA256(address, "human-readable-checksum", 40000) cut to
\* KEY_BYTECOUNT bytes, for the identifiers of the tests and the empty one
\* (the function of RFC 8018, its values computed outside the model)
Pbkdf2Known ==
  "1A1zP1eP5QGefi2DMPTfTL5SLmv7DivfNa" :> <<5, 194, 71, 10, 12, 230, 219>> @@
  "1A1zP1eP5QGefi2DMPTfTL5SLmv7DixfNa" :> <<120, 43, 49, 243, 15, 157, 146>> @@
  "" :> <<168, 18, 107, 2, 242, 255, 63>>

InitVectors == kdf = Pbkdf2Known /\ InitTest

SpecVectors == InitVectors /\ [][NextTest]_vars

\* ------------------------------------------------------------ the claims

\* bit p of the key read as one big-endian string of 8 * KEY_BYTECOUNT
\* bits: p = 0 is the most significant bit of key[0] (k[1] here)
KeyBit(k, p) == (k[p \div 8 + 1] \div (2 ^ (7 - (p % 8)))) % 2

RECURSIVE GroupSum(_, _, _)
\* the value of the first c bits of the g-th group of 11 bits of the key
GroupSum(k, g, c) ==
  IF c = 0 THEN 0 ELSE 2 * GroupSum(k, g, c - 1) + KeyBit(k, 11 * g + c - 1)

\* the 11 bits of the key at bit positions 11*g .. 11*g+10, as a number
GroupValue(k, g) == GroupSum(k, g, 11)

\* digit d of x in base 256
Digit(x, d) == BitsValue(Shr(x, 8 * d), 8)

\* two keys agree on their 55 most significant bits
Top55Agree(k1, k2) ==
  /\ \A p \in 1..(KEY_BYTECOUNT - 1) : k1[p] = k2[p]
  /\ k1[KEY_BYTECOUNT] \div 2 = k2[KEY_BYTECOUNT] \div 2

\* no two positions of the list hold the same word
AllDistinct(d) == Cardinality({Words(d)[k] : k \in 1..d.len}) = d.len

\* C1: with a word list of WORD_COUNT words every index computed lies in
\* 0..WORD_COUNT-1, and the call ends, without a panic, with exactly
\* CHECKSUM_LEN words, the m-th of them the word at the m-th index.
C1_OutputShape ==
  /\ pc \in {"split", "done"} =>
       \A m \in 1..Len(indices) : indices[m] \in 0..(WORD_COUNT - 1)
  /\ (pc = "done" /\ word_list.len = WORD_COUNT) =>
       /\ out.kind = "words"
       /\ Len(out.words) = CHECKSUM_LEN
       /\ Len(indices) = CHECKSUM_LEN
       /\ \A m \in 1..CHECKSUM_LEN :
            out.words[m] = Words(word_list)[indices[m] + 1]

\* C1 happens: a call on the empty identifier over WORD_COUNT words has
\* ended with words, its first index the largest one
C1_Witness ==
  /\ pc = "done"
  /\ address = ""
  /\ word_list.len = WORD_COUNT
  /\ out.kind = "words"
  /\ indices[1] = WORD_COUNT - 1

\* C2: a call with a word list whose length is not WORD_COUNT ends with
\* an InvalidVocabulary error: never a panic, never a word sequence.
C2_InvalidVocabulary ==
  (pc = "done" /\ word_list.len # WORD_COUNT) => out.kind = "InvalidVocabulary"

\* C3: a call on the identifier of the first completed call, over the same
\* word list, ends with what the first call ended with.
C3_Deterministic ==
  (pc = "done" /\ first.kind = "call" /\ first.address = address) =>
    out = first.out

\* C3 happens: a later call on the first call's identifier has ended
C3_Witness ==
  /\ pc = "done"
  /\ first.kind = "call"
  /\ first.address = address
  /\ out.kind = "words"
  /\ first.out.kind = "words"

C5_UniqueNonEmpty ==
  loaded.kind = "Ok" =>
    /\ AllDistinct(loaded.words)
    /\ \A k \in 1..loaded.words.len : Words(loaded.words)[k] # ""

\* C6 as claimed: Ok only for an existing file of exactly WORD_COUNT lines,
\* with those lines in order; NotFound when the file does not exist;
\* InvalidData when it has any other number of lines.
C6_AsClaimed ==
  loaded # NoResult =>
    /\ loaded.kind = "Ok" =>
         /\ file.exists
         /\ Len(Words(file.lines)) = WORD_COUNT
         /\ Words(loaded.words) = Words(file.lines)
    /\ ~file.exists => loaded = Err("NotFound")
    /\ (file.exists /\ Len(Words(file.lines)) # WORD_COUNT) =>
         loaded = Err("InvalidData")

\* C6 as amended: Ok only for an existing file that is opened and read
\* without error and has exactly WORD_COUNT lines, with those lines in
\* order; NotFound when the file does not exist; the error of File::open or
\* of reading a line, as it is, when one fails; InvalidData when the file
\* is read without error and has any other number of lines; so no list of
\* another length than WORD_COUNT is returned.
C6_LoadOutcome ==
  loaded # NoResult =>
    /\ loaded.kind = "Ok" =>
         /\ file.exists /\ file.openErr = "none" /\ file.readErr = "none"
         /\ Len(Words(file.lines)) = WORD_COUNT
         /\ Words(loaded.words) = Words(file.lines)
         /\ Len(Words(loaded.words)) = WORD_COUNT
    /\ ~file.exists => loaded = Err("NotFound")
    /\ (file.exists /\ file.openErr # "none") => loaded = Err(file.openErr)
    /\ (file.exists /\ file.openErr = "none" /\ file.readErr # "none") =>
         loaded = Err(file.readErr)
    /\ ( /\ file.exists /\ file.openErr = "none" /\ file.readErr = "none"
         /\ Len(Words(file.lines)) # WORD_COUNT ) =>
         loaded = Err("InvalidData")
    /\ ( /\ file.exists /\ file.openErr = "none" /\ file.readErr = "none"
         /\ Len(Words(file.lines)) = WORD_COUNT ) =>
         loaded.kind = "Ok"

\* C6 happens: a readable file with one line too many was refused
C6_Witness ==
  /\ file.exists /\ file.openErr = "none" /\ file.readErr = "none"
  /\ file.lines.len = WORD_COUNT + 1
  /\ loaded = Err("InvalidData")

\* C7: the m-th index is the value of the 11 key bits at positions
\* 11*(m-1) .. 11*(m-1)+10 counted from the most significant bit, and the
\* m-th word returned is the word at that index: the first word is the one
\* of the highest 11 bits.
C7_GroupOrder ==
  /\ pc \in {"split", "done"} =>
       \A m \in 1..Len(indices) : indices[m] = GroupValue(key, m - 1)
  /\ (pc = "done" /\ out.kind = "words") =>
       /\ Len(out.words) = CHECKSUM_LEN
       /\ \A m \in 1..CHECKSUM_LEN :
            out.words[m] = Words(word_list)[GroupValue(key, m - 1) + 1]

\* C7 happens: words were returned for a key whose groups differ
C7_Witness ==
  /\ pc = "done"
  /\ out.kind = "words"
  /\ GroupValue(key, 0) # GroupValue(key, CHECKSUM_LEN - 1)
  /\ AllDistinct(word_list)

\* C8: the shift amount (8 * KEY_BYTECOUNT) % 11 is
\* 8 * KEY_BYTECOUNT - 11 * CHECKSUM_LEN = 1 with KEY_BYTECOUNT = 7; after
\* the shift key_int < 2^55, and its 55 bits are the 55 most significant
\* bits of the key, in order: CHECKSUM_LEN groups of 11, none lost.
C8_ExcessDropped ==
  /\ (8 * KEY_BYTECOUNT) % 11 = 8 * KEY_BYTECOUNT - 11 * CHECKSUM_LEN
  /\ KEY_BYTECOUNT = 7
  /\ (8 * KEY_BYTECOUNT) % 11 = 1
  /\ pc \in {"split", "done"} =>
       \A k \in BitIdx :
         key_int[k] = IF k < 11 * CHECKSUM_LEN
                      THEN KeyBit(key, 11 * CHECKSUM_LEN - 1 - k)
                      ELSE 0

\* C8 happens: the shift has dropped a set bit of the key
C8_Witness ==
  /\ pc = "split"
  /\ KeyBit(key, 8 * KEY_BYTECOUNT - 1) = 1
  /\ key_int[11 * CHECKSUM_LEN - 1] = 1

\* C9: during and after the byte-folding loop key_int is the big-endian
\* value of the bytes folded so far (its base-256 digits are those bytes,
\* the first the most significant, every higher digit 0), so after the
\* loop it is the value of the KEY_BYTECOUNT key bytes, below 2^56; and
\* before every shift by 8 the 8 highest bits of key_int are 0: none drops.
C9_BigEndianFold ==
  pc = "fold" =>
    /\ \A d \in 0..((U128_BITS \div 8) - 1) :
         Digit(key_int, d) = IF d < n THEN key[n - d] ELSE 0
    /\ n < KEY_BYTECOUNT =>
         \A k \in (U128_BITS - 8)..(U128_BITS - 1) : key_int[k] = 0

\* C9 happens: the loop is over for a key whose first and last bytes differ
C9_Witness ==
  /\ pc = "fold"
  /\ n = KEY_BYTECOUNT
  /\ key[1] # key[KEY_BYTECOUNT]
  /\ key[1] # 0

\* C10: two keys give the same indices exactly when they agree on their 55
\* most significant bits, and over distinct words the same word sequence
\* exactly then.
C10_InjectiveOn55 ==
  (pc = "done" /\ first.kind = "call") =>
    /\ (indices = first.indices) <=> Top55Agree(key, first.key)
    /\ AllDistinct(word_list) =>
         ((out = first.out) <=> Top55Agree(key, first.key))

\* C10 happens: two keys that differ in the last bit alone gave the same
\* words over distinct words
C10_Witness ==
  /\ pc = "done"
  /\ first.kind = "call"
  /\ key # first.key
  /\ Top55Agree(key, first.key)
  /\ AllDistinct(word_list)
  /\ out = first.out
  /\ out.kind = "words"

====
